---------------------------- MODULE Spec2Model ----------------------------
(***************************************************************************)
(* Model of scripts/kopomapper/kmapper.py: the comparison of country       *)
(* survey definitions with a standard template (compare_with_standard),    *)
(* its match cascade (find_approximate_match, find_best_match,             *)
(* find_token_match, find_label_match) and the text helpers they use.      *)
(*                                                                         *)
(* Cell values are TLA+ strings; NaN stands for a missing cell (pandas     *)
(* float NaN) and None for Python's None.  Text is scored as a sequence of *)
(* one-character strings.                                                  *)
(***************************************************************************)
EXTENDS Integers, Sequences, FiniteSets, TLC

NaN == "<NaN>"
None == "<None>"

(***************************************************************************)
(* Characters and strings                                                  *)
(***************************************************************************)
Chars(s) == [i \in 1..Len(s) |-> SubSeq(s, i, i)]

RECURSIVE Text(_)
Text(cs) == IF cs = <<>> THEN "" ELSE Head(cs) \o Text(Tail(cs))

AsciiOrder == Chars(" $0123456789>?ABCDEFGHIJKLMNOPQRSTUVWXYZ_abcdefghijklmnopqrstuvwxyz{}")
UpperCase == Chars("ABCDEFGHIJKLMNOPQRSTUVWXYZ")
LowerCase == Chars("abcdefghijklmnopqrstuvwxyz")
Digits == Chars("0123456789")

Range(f) == {f[i] : i \in DOMAIN f}
Ord(c) == CHOOSE i \in DOMAIN AsciiOrder : AsciiOrder[i] = c

\* \s of Python's re
IsSpace(c) == c = " "
\* \w of Python's re: letters, digits and the underscore
IsWord(c) == c \in Range(UpperCase) \cup Range(LowerCase) \cup Range(Digits) \cup {"_"}

\* str.lower()
lower(cs) ==
    [i \in DOMAIN cs |->
        IF cs[i] \in Range(UpperCase)
        THEN LowerCase[CHOOSE k \in DOMAIN UpperCase : UpperCase[k] = cs[i]]
        ELSE cs[i]]

\* str.strip()
RECURSIVE lstrip(_)
lstrip(cs) == IF cs # <<>> /\ IsSpace(Head(cs)) THEN lstrip(Tail(cs)) ELSE cs
RECURSIVE rstrip(_)
rstrip(cs) ==
    IF cs # <<>> /\ IsSpace(cs[Len(cs)]) THEN rstrip(SubSeq(cs, 1, Len(cs) - 1)) ELSE cs
strip(cs) == rstrip(lstrip(cs))

\* str.split(): the maximal runs of non-space characters, in order
RECURSIVE split(_)
split(cs) ==
    LET s == lstrip(cs)
        n == IF \E i \in DOMAIN s : IsSpace(s[i])
             THEN (CHOOSE i \in DOMAIN s : IsSpace(s[i]) /\ \A k \in 1..(i - 1) : ~IsSpace(s[k])) - 1
             ELSE Len(s)
    IN  IF s = <<>> THEN <<>>
        ELSE <<SubSeq(s, 1, n)>> \o split(SubSeq(s, n + 1, Len(s)))

\* " ".join(tokens)
RECURSIVE join(_)
join(ts) ==
    IF ts = <<>> THEN <<>>
    ELSE IF Len(ts) = 1 THEN ts[1]
    ELSE ts[1] \o <<" ">> \o join(Tail(ts))

\* Python's order of strings: by the first differing character, a proper prefix first
StrLess(a, b) ==
    \E k \in 1..(Len(b)) :
        /\ \A i \in 1..(k - 1) : i <= Len(a) /\ a[i] = b[i]
        /\ k - 1 <= Len(a)
        /\ \/ k = Len(a) + 1
           \/ k <= Len(a) /\ Ord(a[k]) < Ord(b[k])

\* sorted(tokens) for a set of distinct tokens
RECURSIVE sorted(_)
sorted(S) ==
    IF S = {} THEN <<>>
    ELSE LET m == CHOOSE x \in S : \A y \in S \ {x} : StrLess(x, y)
         IN  <<m>> \o sorted(S \ {m})

\* sorted(tokens) for a list that may repeat a token
RECURSIVE sortedList(_)
sortedList(ts) ==
    IF ts = <<>> THEN <<>>
    ELSE LET m == CHOOSE i \in DOMAIN ts :
                    \A k \in DOMAIN ts : ~StrLess(ts[k], ts[i])
             rest == [k \in 1..(Len(ts) - 1) |-> IF k < m THEN ts[k] ELSE ts[k + 1]]
         IN  <<ts[m]>> \o sortedList(rest)

(***************************************************************************)
(* difflib.SequenceMatcher, the matcher fuzzywuzzy falls back on (no junk:  *)
(* isjunk is None and the texts are far shorter than the autojunk limit).  *)
(* Indices are 1-based and the ranges alo..ahi, blo..bhi are inclusive.    *)
(***************************************************************************)
Max(S) == CHOOSE x \in S : \A y \in S : y <= x
Min(S) == CHOOSE x \in S : \A y \in S : x <= y

\* the length of the longest common run starting at a[i] and b[j]
RunLen(a, i, ahi, b, j, bhi) ==
    Max({k \in 0..Min({ahi - i + 1, bhi - j + 1}) :
            \A d \in 0..(k - 1) : a[i + d] = b[j + d]})

\* of the runs <<i, j, k>> the longest, of those the one that starts earliest
\* in a, and of those the one that starts earliest in b
first_longest(runs) ==
    CHOOSE r \in runs : \A q \in runs :
        \/ r[3] > q[3]
        \/ r[3] = q[3] /\ r[1] < q[1]
        \/ r[3] = q[3] /\ r[1] = q[1] /\ r[2] <= q[2]

\* find_longest_match on non-empty ranges; <<alo, blo, 0>> when nothing matches
find_longest_match(a, b, alo, ahi, blo, bhi) ==
    first_longest({<<i, j, RunLen(a, i, ahi, b, j, bhi)>> : i \in alo..ahi, j \in blo..bhi})

\* get_matching_blocks without the closing block (len(a), len(b), 0)
RECURSIVE matching_blocks(_, _, _, _, _, _)

\* the longest match m of the ranges, with the blocks to its left and to its right
blocks_around(a, b, alo, ahi, blo, bhi, m) ==
    IF m[3] = 0 THEN {}
    ELSE {m} \cup matching_blocks(a, b, alo, m[1] - 1, blo, m[2] - 1)
             \cup matching_blocks(a, b, m[1] + m[3], ahi, m[2] + m[3], bhi)

matching_blocks(a, b, alo, ahi, blo, bhi) ==
    IF alo > ahi \/ blo > bhi THEN {}
    ELSE blocks_around(a, b, alo, ahi, blo, bhi, find_longest_match(a, b, alo, ahi, blo, bhi))

RECURSIVE SumLen(_)
SumLen(blocks) ==
    IF blocks = {} THEN 0
    ELSE LET m == CHOOSE x \in blocks : TRUE IN m[3] + SumLen(blocks \ {m})

\* SequenceMatcher.ratio() as the fraction <<2 * matches, len(a) + len(b)>>
matcher_ratio(a, b) ==
    <<2 * SumLen(matching_blocks(a, b, 1, Len(a), 1, Len(b))), Len(a) + Len(b)>>

\* utils.intr(100 * r): int(round(.)), Python's round half to even
intr100(r) ==
    LET n == 100 * r[1]
        q == n \div r[2]
        m == n % r[2]
    IN  IF 2 * m > r[2] THEN q + 1
        ELSE IF 2 * m < r[2] THEN q
        ELSE IF q % 2 = 0 THEN q ELSE q + 1

(***************************************************************************)
(* fuzzywuzzy.fuzz and fuzzywuzzy.process, on sequences of characters      *)
(***************************************************************************)
\* utils.full_process: every non-\w character becomes a space, lower, strip
full_process(cs) ==
    strip(lower([i \in DOMAIN cs |-> IF IsWord(cs[i]) THEN cs[i] ELSE " "]))

\* fuzz.ratio (check_for_equivalence comes before check_empty_string)
fuzz_ratio_cs(s1, s2) ==
    IF s1 = s2 THEN 100
    ELSE IF s1 = <<>> \/ s2 = <<>> THEN 0
    ELSE intr100(matcher_ratio(s1, s2))

\* fuzz.partial_ratio: the best ratio of the shorter text against the windows
\* of the longer text that the matching blocks line up
fuzz_partial_ratio_cs(s1, s2) ==
    IF s1 = s2 THEN 100
    ELSE IF s1 = <<>> \/ s2 = <<>> THEN 0
    ELSE LET shorter == IF Len(s1) <= Len(s2) THEN s1 ELSE s2
             longer == IF Len(s1) <= Len(s2) THEN s2 ELSE s1
             blocks == matching_blocks(shorter, longer, 1, Len(shorter), 1, Len(longer))
                         \cup {<<Len(shorter) + 1, Len(longer) + 1, 0>>}
             starts == {IF m[2] - m[1] > 0 THEN m[2] - m[1] ELSE 0 : m \in blocks}
             window(st) == SubSeq(longer, st + 1, Min({st + Len(shorter), Len(longer)}))
             scores == {intr100(matcher_ratio(shorter, window(st))) : st \in starts}
         IN  Max(scores)

\* fuzz._process_and_sort
process_and_sort(cs, full) ==
    strip(join(sortedList(split(IF full THEN full_process(cs) ELSE cs))))

\* fuzz.token_sort_ratio
fuzz_token_sort_ratio_cs(s1, s2, full) ==
    fuzz_ratio_cs(process_and_sort(s1, full), process_and_sort(s2, full))

\* fuzz._token_set, from the end: the best of the three pairwise ratios
token_set_pairwise(sorted_sect, combined_1to2, combined_2to1) ==
    Max({fuzz_ratio_cs(p[1], p[2]) :
            p \in {<<sorted_sect, combined_1to2>>, <<sorted_sect, combined_2to1>>,
                   <<combined_1to2, combined_2to1>>}})

\* ... of the sorted intersection alone and with each sorted remainder
token_set_combined(sorted_sect, sorted_1to2, sorted_2to1) ==
    token_set_pairwise(strip(sorted_sect),
                       strip(sorted_sect \o <<" ">> \o sorted_1to2),
                       strip(sorted_sect \o <<" ">> \o sorted_2to1))

\* ... of the two token sets
token_set_tokens(tokens1, tokens2) ==
    token_set_combined(join(sorted(tokens1 \cap tokens2)),
                       join(sorted(tokens1 \ tokens2)),
                       join(sorted(tokens2 \ tokens1)))

\* ... of the processed texts: an empty one scores 0
token_set_processed(p1, p2) ==
    IF p1 = <<>> \/ p2 = <<>> THEN 0
    ELSE token_set_tokens(Range(split(p1)), Range(split(p2)))

\* fuzz.token_set_ratio
fuzz_token_set_ratio_cs(s1, s2, full) ==
    IF ~full /\ s1 = s2 THEN 100
    ELSE token_set_processed(IF full THEN full_process(s1) ELSE s1,
                             IF full THEN full_process(s2) ELSE s2)

(***************************************************************************)
(* The module's constants (kmapper.py lines 15-22)                         *)
(***************************************************************************)
SURVEY_COLUMNS_TO_COMPARE == <<"name", "type", "calculation", "relevant", "constraint">>
CHOICES_COLUMNS_TO_COMPARE == <<"name", "list_name">>
SPECIAL_TYPES == {"begin_group", "end_group", "begin_repeat", "end_repeat"}
LABEL_COLUMNS == <<"label::English", "label::French">>

(***************************************************************************)
(* Tables.  A table (a DataFrame with the default RangeIndex) is a record  *)
(* [columns, rows]: the set of its column names and the sequence of its    *)
(* rows, each a function from the columns to cell values.  Row k of the    *)
(* sequence has index k - 1.                                               *)
(***************************************************************************)
\* a sequence's elements that are in S, in order
RECURSIVE SelectIn(_, _)
SelectIn(seq, S) ==
    IF seq = <<>> THEN <<>>
    ELSE (IF Head(seq) \in S THEN <<Head(seq)>> ELSE <<>>) \o SelectIn(Tail(seq), S)

\* extract_variables: keep the wanted columns the table has
extract_variables(df, columns_to_compare) ==
    LET kept == Range(columns_to_compare) \cap df.columns
    IN  [columns |-> kept,
         rows |-> [k \in DOMAIN df.rows |-> [c \in kept |-> df.rows[k][c]]]]

\* get_available_label_columns: the label columns of the table, in LABEL_COLUMNS order
get_available_label_columns(df) == SelectIn(LABEL_COLUMNS, df.columns)

\* Series.dropna().unique(): the distinct present values in order of first appearance
RECURSIVE dropna_unique(_)
dropna_unique(values) ==
    IF values = <<>> THEN <<>>
    ELSE LET front == dropna_unique(SubSeq(values, 1, Len(values) - 1))
             last == values[Len(values)]
         IN  IF last = NaN \/ last \in Range(front) THEN front ELSE Append(front, last)

\* df[col]: a column's cells in row order
column_values(df, col) == [k \in DOMAIN df.rows |-> df.rows[k][col]]

\* df[label_columns].stack(): the label cells row by row, each row in column order
RECURSIVE stack(_, _)
stack(df, label_columns) ==
    IF df.rows = <<>> THEN <<>>
    ELSE [k \in DOMAIN label_columns |-> Head(df.rows)[label_columns[k]]]
            \o stack([df EXCEPT !.rows = Tail(df.rows)], label_columns)

(***************************************************************************)
(* Inputs.  The standard template and each country's workbook hold a       *)
(* survey and a choices table.  A workbook is drawn as a few rows of a     *)
(* small pool, in pool order; every workbook has its identity columns      *)
(* (name; name and list_name for choices) and some column the comparison   *)
(* does not track.                                                         *)
(***************************************************************************)
MaxStdRows == 3
MaxCtyRows == 2

Countries == <<"AAA", "BBB">>
Thresholds == {0, 90, 101}

SurveyCells(name, type, relevant, label) ==
    [tab |-> "survey",
     cells |-> "name" :> name @@ "type" :> type @@ "relevant" :> relevant
                  @@ "label::English" :> label @@ "hint" :> "h"]

ChoicesCells(name, list_name, label) ==
    [tab |-> "choices",
     cells |-> "name" :> name @@ "list_name" :> list_name @@ "label::English" :> label
                  @@ "order" :> "1"]

StdPool ==
    << SurveyCells("q1", "text", "a b", "Age"),
       SurveyCells("q1", "begin_group", NaN, NaN),
       SurveyCells("q2", "select_one yn", NaN, "Age"),
       ChoicesCells("yes", "yn", "Yes") >>

CtyPool ==
    << SurveyCells("q1", "text", "a b", "Age"),
       SurveyCells("q1", "begin_group", "b_a", NaN),
       SurveyCells("q2", "select_one  yn", " ", "Name"),
       SurveyCells("q2", "select_one yn", "a_b", "Ages"),
       ChoicesCells("yes", "yn", "Yes") >>

AllSurveyColumns == {"name", "type", "relevant", "label::English", "hint"}
StdSurveyColumnSets == {AllSurveyColumns, AllSurveyColumns \ {"label::English"}}
ChoicesColumns == {"name", "list_name", "label::English", "order"}

\* the subsequences of pool with at most max rows
RECURSIVE Picks(_, _)
Picks(pool, max) ==
    IF pool = <<>> \/ max = 0 THEN {<<>>}
    ELSE Picks(Tail(pool), max)
            \cup {<<Head(pool)>> \o rest : rest \in Picks(Tail(pool), max - 1)}

\* the rows of one tab among the picked rows, as a table with the given columns
RECURSIVE TabRows(_, _, _)
TabRows(picked, tab, columns) ==
    IF picked = <<>> THEN <<>>
    ELSE (IF Head(picked).tab = tab
          THEN <<[c \in columns |-> Head(picked).cells[c]]>>
          ELSE <<>>) \o TabRows(Tail(picked), tab, columns)

Workbook(picked, surveyColumns) ==
    [survey |-> [columns |-> surveyColumns, rows |-> TabRows(picked, "survey", surveyColumns)],
     choices |-> [columns |-> ChoicesColumns, rows |-> TabRows(picked, "choices", ChoicesColumns)]]

StandardInputs ==
    {Workbook(picked, cols) : picked \in Picks(StdPool, MaxStdRows), cols \in StdSurveyColumnSets}

CountryInputs == {Workbook(picked, AllSurveyColumns) : picked \in Picks(CtyPool, MaxCtyRows)}

(***************************************************************************)
(* Text helpers (kmapper.py lines 74-86).  Every value they are applied to *)
(* is a cell of the pools (or None), so each is tabulated once over those. *)
(***************************************************************************)
PoolCells == UNION {Range(row.cells) : row \in Range(StdPool) \cup Range(CtyPool)}

\* str(value) of a cell: a missing cell prints as "nan"
str(value) == IF value = NaN THEN "nan" ELSE value

\* is_empty_or_nan
EmptyTable ==
    [value \in PoolCells \cup {None} |->
        IF value = NaN THEN TRUE
        ELSE value = None \/ strip(Chars(str(value))) = <<>>]

is_empty_or_nan(value) == EmptyTable[value]

\* re.sub(r'[_\s]+', ' ', text): each run of underscores and spaces becomes one space
RECURSIVE collapse_runs(_)
collapse_runs(cs) ==
    IF cs = <<>> THEN <<>>
    ELSE IF Head(cs) = "_" \/ IsSpace(Head(cs))
         THEN IF Len(cs) > 1 /\ (cs[2] = "_" \/ IsSpace(cs[2]))
              THEN collapse_runs(Tail(cs))
              ELSE <<" ">> \o collapse_runs(Tail(cs))
         ELSE <<Head(cs)>> \o collapse_runs(Tail(cs))

\* lines 83-86 of preprocess_text on the characters of str(text): lower, drop
\* what is neither \w nor \s, collapse the runs, strip
preprocess_text_cs(cs) ==
    strip(collapse_runs(SelectIn(lower(cs), {c \in Range(lower(cs)) : IsWord(c) \/ IsSpace(c)})))

\* preprocess_text
PreprocessTable ==
    [text \in PoolCells \cup {None} |->
        IF text = NaN \/ text = None THEN "" ELSE Text(preprocess_text_cs(Chars(str(text))))]

preprocess_text(text) == PreprocessTable[text]

(***************************************************************************)
(* The scorers on text.  Every text the comparison can score is a cell, a  *)
(* preprocessed cell or a fully processed one, so each scorer is tabulated *)
(* once over those texts.                                                  *)
(***************************************************************************)
ScoredTexts ==
    LET raw == {str(v) : v \in PoolCells}
        pre == {preprocess_text(v) : v \in PoolCells}
    IN  raw \cup pre \cup {Text(full_process(Chars(t))) : t \in pre}

FullProcessTable == [t \in ScoredTexts |-> Text(full_process(Chars(t)))]

RatioTable ==
    [s1 \in ScoredTexts |-> [s2 \in ScoredTexts |-> fuzz_ratio_cs(Chars(s1), Chars(s2))]]
PartialRatioTable ==
    [s1 \in ScoredTexts |->
        [s2 \in ScoredTexts |-> fuzz_partial_ratio_cs(Chars(s1), Chars(s2))]]
TokenSortRatioTable ==
    [s1 \in ScoredTexts |-> [s2 \in ScoredTexts |-> [full \in BOOLEAN |->
        fuzz_token_sort_ratio_cs(Chars(s1), Chars(s2), full)]]]
TokenSetRatioTable ==
    [s1 \in ScoredTexts |-> [s2 \in ScoredTexts |-> [full \in BOOLEAN |->
        fuzz_token_set_ratio_cs(Chars(s1), Chars(s2), full)]]]

fuzz_ratio(s1, s2) == RatioTable[s1][s2]
fuzz_partial_ratio(s1, s2) == PartialRatioTable[s1][s2]
fuzz_token_sort_ratio(s1, s2, full) == TokenSortRatioTable[s1][s2][full]
fuzz_token_set_ratio(s1, s2, full) == TokenSetRatioTable[s1][s2][full]

\* one of fuzz's scorers, by name
score_with(scorer, s1, s2, full) ==
    CASE scorer = "ratio" -> fuzz_ratio(s1, s2)
      [] scorer = "partial_ratio" -> fuzz_partial_ratio(s1, s2)
      [] scorer = "token_sort_ratio" -> fuzz_token_sort_ratio(s1, s2, full)
      [] scorer = "token_set_ratio" -> fuzz_token_set_ratio(s1, s2, full)

\* process.extractWithoutOrder's scoring of one choice: the query and the choice
\* are run through full_process first, so the token scorers skip their own
extract_score(scorer, query, choice) ==
    score_with(scorer, FullProcessTable[query], FullProcessTable[choice], FALSE)

\* max(best_list, key=score): the first of the best-scoring choices
first_best(choices, scores) ==
    LET best == CHOOSE k \in DOMAIN scores :
                    /\ \A j \in DOMAIN scores : scores[j] <= scores[k]
                    /\ \A j \in 1..(k - 1) : scores[j] < scores[k]
    IN  <<choices[best], scores[best]>>

\* process.extractOne.  With no choices it yields no pair: it returns None, or on
\* interpreters where a StopIteration raised inside a generator becomes a
\* RuntimeError it raises; either way the caller's unpacking does not complete.
\* Both are modelled as the empty tuple.
process_extractOne(query, choices, scorer) ==
    IF choices = <<>> THEN <<>>
    ELSE first_best(choices,
                    [k \in DOMAIN choices |-> extract_score(scorer, query, choices[k])])

(***************************************************************************)
(* Candidate search (kmapper.py lines 88-145).  Each returns               *)
(* <<best_match, highest_score>>.                                          *)
(***************************************************************************)
\* lines 104-106: the running best after a candidate with the given score
approximate_update(best, candidate, score, threshold) ==
    IF score > best[2] /\ score >= threshold THEN <<candidate, score>> ELSE best

\* the loop of find_approximate_match from candidate k on; best is
\* <<best_match, highest_score>> so far
RECURSIVE approximate_scan(_, _, _, _, _)
approximate_scan(value_str, candidates, threshold, k, best) ==
    IF k > Len(candidates) THEN best
    ELSE approximate_scan(value_str, candidates, threshold, k + 1,
            IF value_str = "" \/ (IF candidates[k] # None THEN str(candidates[k]) ELSE "") = ""
            THEN best
            ELSE approximate_update(best, candidates[k],
                    fuzz_token_set_ratio(value_str,
                        IF candidates[k] # None THEN str(candidates[k]) ELSE "", TRUE),
                    threshold))

find_approximate_match(value, candidates, threshold) ==
    approximate_scan(IF value # None THEN str(value) ELSE "", candidates, threshold,
                     1, <<None, 0>>)

\* lines 122-124 and 141-143: the running best after a candidate with the given score
strict_update(best, candidate, score) ==
    IF score > best[2] THEN <<candidate, score>> ELSE best

\* lines 116 and 135: the text of a candidate
candidate_text(candidate) ==
    IF ~is_empty_or_nan(candidate) THEN preprocess_text(candidate) ELSE ""

\* the loop shared by find_best_match and find_token_match from candidate k on
RECURSIVE strict_max_scan(_, _, _, _, _)
strict_max_scan(scorer, value_str, candidates, k, best) ==
    IF k > Len(candidates) THEN best
    ELSE strict_max_scan(scorer, value_str, candidates, k + 1,
            IF value_str = "" \/ candidate_text(candidates[k]) = ""
            THEN best
            ELSE strict_update(best, candidates[k],
                    IF scorer = "partial_ratio"
                    THEN fuzz_partial_ratio(value_str, candidate_text(candidates[k]))
                    ELSE fuzz_token_sort_ratio(value_str, candidate_text(candidates[k]),
                                               TRUE)))

find_best_match(value, candidates) ==
    strict_max_scan("partial_ratio", candidate_text(value), candidates, 1, <<None, 0>>)

find_token_match(value, candidates) ==
    strict_max_scan("token_sort_ratio", candidate_text(value), candidates, 1, <<None, 0>>)

(***************************************************************************)
(* find_label_match (kmapper.py lines 147-177).  Returns                   *)
(* [match, score, raised, attempts]: raised is TRUE when extractOne yields  *)
(* no pair and the call ends in an exception (TypeError or RuntimeError);  *)
(* attempts are the results of the extractOne calls made, in order.        *)
(***************************************************************************)
LABEL_SCORERS == <<"ratio", "token_sort_ratio", "partial_ratio", "token_set_ratio">>

\* lines 157-177 given what each extractOne call returns: the first result that
\* reaches the threshold is returned, and failing that the last one
label_return(found, threshold) ==
    IF found[1] = <<>>
    THEN [match |-> None, score |-> 0, raised |-> TRUE, attempts |-> <<>>]
    ELSE LET reached == {k \in DOMAIN found : found[k][2] >= threshold}
             last == IF reached = {} THEN Len(found) ELSE Min(reached)
         IN  [match |-> found[last][1], score |-> found[last][2], raised |-> FALSE,
              attempts |-> SubSeq(found, 1, last)]

\* lines 153-177 on the preprocessed value and labels
label_search(value, labels, threshold) ==
    IF value \in Range(labels)
    THEN [match |-> value, score |-> 100, raised |-> FALSE, attempts |-> <<>>]
    ELSE label_return([k \in DOMAIN LABEL_SCORERS |->
                          process_extractOne(value, labels, LABEL_SCORERS[k])],
                      threshold)

find_label_match(std_value, country_labels, threshold) ==
    label_search(preprocess_text(std_value),
                 [k \in DOMAIN country_labels |-> preprocess_text(country_labels[k])],
                 threshold)

(***************************************************************************)
(* The match cascade of one differing field (kmapper.py lines 238-261 for  *)
(* the survey tab, 317-340 for the choices tab).  Returns the four match   *)
(* fields of the record, whether find_label_match raised, and calls: the   *)
(* searches that were run, in order, each with what it returned.           *)
(***************************************************************************)
Call(stage, found) == [stage |-> stage, match |-> found[1], score |-> found[2]]

LabelCall(label) ==
    [stage |-> "label", match |-> label.match, score |-> label.score,
     attempts |-> label.attempts]

no_match == [approximate_match |-> None, best_match |-> None, token_match |-> None,
             label_match |-> None, raised |-> FALSE, calls |-> <<>>]

\* a cascade that runs the best search whatever the approximate search scored
\* and keeps its candidate; the stage order of C9 must rule it out
cascade_outcome_eager(approx, best, token, label, label_columns_available, threshold) ==
    [no_match EXCEPT !.approximate_match = IF approx[2] >= threshold THEN approx[1] ELSE None,
                     !.best_match = best[1],
                     !.calls = <<Call("approximate", approx), Call("best", best)>>]

\* lines 241-261 given what each search returns
cascade_outcome(approx, best, token, label, label_columns_available, threshold) ==
    IF approx[2] >= threshold
    THEN [no_match EXCEPT !.approximate_match = approx[1],
                          !.calls = <<Call("approximate", approx)>>]
    ELSE IF best[2] >= threshold
    THEN [no_match EXCEPT !.best_match = best[1],
                          !.calls = <<Call("approximate", approx), Call("best", best)>>]
    ELSE IF token[2] < threshold /\ label_columns_available
    THEN [no_match EXCEPT !.best_match = best[1], !.token_match = token[1],
                          !.label_match = label.match, !.raised = label.raised,
                          !.calls = <<Call("approximate", approx), Call("best", best),
                                      Call("token", token), LabelCall(label)>>]
    ELSE [no_match EXCEPT !.best_match = best[1], !.token_match = token[1],
                          !.calls = <<Call("approximate", approx), Call("best", best),
                                      Call("token", token)>>]

\* line 256: std_labels[0] if std_labels else std_value
label_target(std_row, standard_label_columns, std_value) ==
    LET std_labels == SelectIn(standard_label_columns, DOMAIN std_row)
    IN  IF std_labels # <<>> THEN std_row[std_labels[1]] ELSE std_value

match_cascade(std_value, candidates, std_row, standard_label_columns, country_df, country_label_columns, threshold) ==
    cascade_outcome(find_approximate_match(std_value, candidates, threshold),
                    find_best_match(std_value, candidates),
                    find_token_match(std_value, candidates),
                    find_label_match(label_target(std_row, standard_label_columns, std_value),
                                     dropna_unique(stack(country_df, country_label_columns)),
                                     threshold),
                    standard_label_columns # <<>> /\ country_label_columns # <<>>,
                    threshold)

(***************************************************************************)
(* One row of the standard against a country (the bodies of the loops at   *)
(* kmapper.py lines 203-281 and 284-361).  A row's outcome is              *)
(* [records, log, lookup, raised]: the records it appends, the cascades it *)
(* ran, the country row its lookup selected and whether an exception ended *)
(* the comparison.                                                         *)
(***************************************************************************)
no_outcome == [records |-> <<>>, log |-> <<>>, lookup |-> <<>>, raised |-> FALSE]

\* the record of a standard row that has no country counterpart
missing_record(key, issue) ==
    key @@ [issue |-> issue, matched |-> "not matched", approximate_match |-> None,
            best_match |-> None, token_match |-> None, label_match |-> None]

\* the record of one compared field
field_record(key, col, std_value, country_value, match_status, m) ==
    key @@ [column |-> col, standard_value |-> std_value, country_value |-> country_value,
            matched |-> match_status, approximate_match |-> m.approximate_match,
            best_match |-> m.best_match, token_match |-> m.token_match,
            label_match |-> m.label_match]

\* a comparison that forgets the both-empty test; C2 must rule it out
values_unequal(std_value, country_value) == std_value # country_value

\* lines 232 and 238: neither both empty nor equal
values_differ(std_value, country_value) ==
    /\ ~(is_empty_or_nan(std_value) /\ is_empty_or_nan(country_value))
    /\ std_value # country_value

\* a column loop that appends nothing for a field that does not differ; C3 must
\* rule it out
column_outcome_silent(key, col, std_value, country_value, differs, m) ==
    IF m.raised THEN [no_outcome EXCEPT !.raised = TRUE]
    ELSE IF ~differs THEN no_outcome
    ELSE [no_outcome EXCEPT
            !.records = <<field_record(key, col, std_value, country_value, "not matched", m)>>,
            !.log = <<[tab |-> key.tab, row |-> key.row, column |-> col,
                       calls |-> m.calls]>>]

\* lines 232-281 for one column, given whether the values differ and the cascade's result
column_outcome(key, col, std_value, country_value, differs, m) ==
    IF m.raised THEN [no_outcome EXCEPT !.raised = TRUE]
    ELSE [no_outcome EXCEPT
            !.records = <<field_record(key, col, std_value, country_value,
                                       IF differs THEN "not matched" ELSE "matched", m)>>,
            !.log = IF differs
                    THEN <<[tab |-> key.tab, row |-> key.row, column |-> col,
                            calls |-> m.calls]>>
                    ELSE <<>>]

\* one iteration of the column loop
compare_column(col, key, std_row, country_row, standard_label_columns, country_df, country_label_columns, threshold) ==
    IF col \notin DOMAIN std_row \/ col \notin DOMAIN country_row THEN no_outcome
    ELSE column_outcome(key, col, std_row[col], country_row[col],
                        values_differ(std_row[col], country_row[col]),
                        IF values_differ(std_row[col], country_row[col])
                        THEN match_cascade(std_row[col],
                                           dropna_unique(column_values(country_df, col)),
                                           std_row, standard_label_columns, country_df,
                                           country_label_columns, threshold)
                        ELSE no_match)

\* an outcome followed by the outcome of what comes after it
then_outcome(first, rest) ==
    [no_outcome EXCEPT !.records = first.records \o rest.records,
                       !.log = first.log \o rest.log,
                       !.raised = rest.raised]

\* the columns' outcomes in order, up to the first that raised
RECURSIVE until_raised(_)
until_raised(outcomes) ==
    IF outcomes = <<>> THEN no_outcome
    ELSE IF Head(outcomes).raised THEN Head(outcomes)
    ELSE then_outcome(Head(outcomes), until_raised(Tail(outcomes)))

\* the column loop of a row
compare_columns(columns, key, std_row, country_row, standard_label_columns, country_df, country_label_columns, threshold) ==
    until_raised([k \in DOMAIN columns |->
                    compare_column(columns[k], key, std_row, country_row,
                                   standard_label_columns, country_df,
                                   country_label_columns, threshold)])

\* a lookup that takes the first country row whatever its key; C4 must rule it out
first_row_any(df, key) == IF df.rows = <<>> THEN 0 ELSE 1

\* the first row of df whose cells equal the key's (NaN equals nothing), or 0
first_row(df, key) ==
    LET hits == {k \in DOMAIN df.rows :
                    \A c \in DOMAIN key : df.rows[k][c] = key[c] /\ key[c] # NaN}
    IN  IF hits = {} THEN 0 ELSE Min(hits)

\* lines 212-281 and 290-361 given the country row the lookup found
row_outcome(columns, key, issue, found, std_row, standard_df, country_df, threshold) ==
    IF found = 0
    THEN [no_outcome EXCEPT !.records = <<missing_record(key, issue)>>,
                            !.lookup = <<[tab |-> key.tab, row |-> key.row, found |-> 0]>>]
    ELSE [compare_columns(columns, key, std_row, country_df.rows[found],
                          get_available_label_columns(standard_df), country_df,
                          get_available_label_columns(country_df), threshold)
            EXCEPT !.lookup = <<[tab |-> key.tab, row |-> key.row, found |-> found]>>]

\* a survey loop that does not skip the special types; C7 must rule it out
survey_row_unskipped(idx, standard_survey, country_survey, threshold) ==
    row_outcome(SURVEY_COLUMNS_TO_COMPARE,
                [tab |-> "survey", row |-> idx + 2,
                 name |-> standard_survey.rows[idx + 1]["name"]],
                "Missing in country survey",
                first_row(country_survey, "name" :> standard_survey.rows[idx + 1]["name"]),
                standard_survey.rows[idx + 1], standard_survey, country_survey, threshold)

\* one iteration of the survey loop
survey_row(idx, standard_survey, country_survey, threshold) ==
    LET std_row == standard_survey.rows[idx + 1]
        std_type == IF "type" \in DOMAIN std_row THEN std_row["type"] ELSE ""
    IN  IF std_type \in SPECIAL_TYPES THEN no_outcome
        ELSE row_outcome(SURVEY_COLUMNS_TO_COMPARE,
                         [tab |-> "survey", row |-> idx + 2, name |-> std_row["name"]],
                         "Missing in country survey",
                         first_row(country_survey, "name" :> std_row["name"]),
                         std_row, standard_survey, country_survey, threshold)

\* one iteration of the choices loop
choices_row(idx, standard_choices, country_choices, threshold) ==
    LET std_row == standard_choices.rows[idx + 1]
        std_list_name == IF "list_name" \in DOMAIN std_row THEN std_row["list_name"] ELSE ""
    IN  row_outcome(CHOICES_COLUMNS_TO_COMPARE,
                    [tab |-> "choices", row |-> idx + 2, name |-> std_row["name"],
                     list_name |-> std_list_name],
                    "Missing in country choices",
                    first_row(country_choices,
                              "name" :> std_row["name"] @@ "list_name" :> std_list_name),
                    std_row, standard_choices, country_choices, threshold)

(***************************************************************************)
(* compare_with_standard (kmapper.py lines 179-374) as a state machine:    *)
(* one step per iteration of its loops.                                    *)
(***************************************************************************)
VARIABLES
    standard_data,          \* the standard template: [survey, choices]
    country_data,           \* country code -> [survey, choices]
    threshold,
    pc,                     \* "loop", "survey", "choices" or "done"
    raised,                 \* an exception has ended the call
    country_index,          \* how many countries the outer loop has taken
    idx,                    \* the index of the next standard row of the inner loop
    country_discrepancies,  \* the records of the country being compared
    discrepancies,          \* country code -> records, the value returned
    cascade_log,            \* the cascades run for the country being compared
    lookups                 \* the row lookups made for the country being compared

vars == <<standard_data, country_data, threshold, pc, raised, country_index, idx,
          country_discrepancies, discrepancies, cascade_log, lookups>>

inputs == <<standard_data, country_data, threshold>>

standard_survey == extract_variables(standard_data.survey, SURVEY_COLUMNS_TO_COMPARE \o LABEL_COLUMNS)
standard_choices == extract_variables(standard_data.choices, CHOICES_COLUMNS_TO_COMPARE \o LABEL_COLUMNS)
country == Countries[country_index]
country_survey ==
    extract_variables(country_data[country].survey, SURVEY_COLUMNS_TO_COMPARE \o LABEL_COLUMNS)
country_choices ==
    extract_variables(country_data[country].choices, CHOICES_COLUMNS_TO_COMPARE \o LABEL_COLUMNS)

EmptyDict == [c \in {} |-> <<>>]

Init ==
    /\ standard_data \in StandardInputs
    /\ country_data \in [Range(Countries) -> CountryInputs]
    /\ threshold \in Thresholds
    /\ pc = "loop"
    /\ raised = FALSE
    /\ country_index = 0
    /\ idx = 0
    /\ country_discrepancies = <<>>
    /\ discrepancies = EmptyDict
    /\ cascade_log = <<>>
    /\ lookups = <<>>

\* lines 190-200: the outer loop takes the next country
StartCountry ==
    /\ pc = "loop" /\ ~raised
    /\ country_index < Len(Countries)
    /\ country_index' = country_index + 1
    /\ country_discrepancies' = <<>>
    /\ cascade_log' = <<>>
    /\ lookups' = <<>>
    /\ idx' = 0
    /\ pc' = "survey"
    /\ UNCHANGED <<inputs, raised, discrepancies>>

\* an effect that puts a row's records in front of the list; C8 must rule it out
ApplyInFront(out) ==
    /\ country_discrepancies' = out.records \o country_discrepancies
    /\ cascade_log' = cascade_log \o out.log
    /\ lookups' = lookups \o out.lookup
    /\ raised' = out.raised
    /\ idx' = IF out.raised THEN idx ELSE idx + 1
    /\ UNCHANGED <<inputs, pc, country_index, discrepancies>>

\* the effect of one row's outcome
Apply(out) ==
    /\ country_discrepancies' = country_discrepancies \o out.records
    /\ cascade_log' = cascade_log \o out.log
    /\ lookups' = lookups \o out.lookup
    /\ raised' = out.raised
    /\ idx' = IF out.raised THEN idx ELSE idx + 1
    /\ UNCHANGED <<inputs, pc, country_index, discrepancies>>

\* lines 203-281: one standard survey row
SurveyRow ==
    /\ pc = "survey" /\ ~raised
    /\ idx < Len(standard_survey.rows)
    /\ Apply(survey_row(idx, standard_survey, country_survey, threshold))

\* line 284: the survey loop is over, the choices loop starts
SurveyEnd ==
    /\ pc = "survey" /\ ~raised
    /\ idx = Len(standard_survey.rows)
    /\ pc' = "choices"
    /\ idx' = 0
    /\ UNCHANGED <<inputs, raised, country_index, country_discrepancies, discrepancies,
                   cascade_log, lookups>>

\* lines 284-361: one standard choices row
ChoicesRow ==
    /\ pc = "choices" /\ ~raised
    /\ idx < Len(standard_choices.rows)
    /\ Apply(choices_row(idx, standard_choices, country_choices, threshold))

\* lines 363-369: the country's records are kept if there are any
FinishCountry ==
    /\ pc = "choices" /\ ~raised
    /\ idx = Len(standard_choices.rows)
    /\ discrepancies' = IF country_discrepancies # <<>>
                        THEN (country :> country_discrepancies) @@ discrepancies
                        ELSE discrepancies
    /\ pc' = "loop"
    /\ UNCHANGED <<inputs, raised, country_index, idx, country_discrepancies, cascade_log,
                   lookups>>

\* line 374: every country is done
Return ==
    /\ pc = "loop" /\ ~raised
    /\ country_index = Len(Countries)
    /\ pc' = "done"
    /\ UNCHANGED <<inputs, raised, country_index, idx, country_discrepancies, discrepancies,
                   cascade_log, lookups>>

Next == StartCountry \/ SurveyRow \/ SurveyEnd \/ ChoicesRow \/ FinishCountry \/ Return

Spec == Init /\ [][Next]_vars

(***************************************************************************)
(* Properties.  The records of the country being compared are in           *)
(* country_discrepancies; they are stated against the input tables, not    *)
(* against the operators that produced them.                               *)
(***************************************************************************)
\* a country has been taken
Started == country_index >= 1

\* the comparison of the current country has run to its end
Compared == Started /\ pc \in {"loop", "done"}

IsFieldRecord(r) == "column" \in DOMAIN r
IsMissingRecord(r) == "issue" \in DOMAIN r
MatchFieldNames == {"approximate_match", "best_match", "token_match", "label_match"}
NonNullMatches(r) == {f \in MatchFieldNames : r[f] # None}

\* a value with nothing in it: missing, or a text of spaces only
IsBlank(v) == v = NaN \/ v = None \/ \A i \in 1..Len(v) : SubSeq(v, i, i) = " "

\* the raw values are not both empty and are unequal
RawValuesDiffer(a, b) == ~(IsBlank(a) /\ IsBlank(b)) /\ a # b

IsStructural(row) ==
    "type" \in DOMAIN row
        /\ row["type"] \in {"begin_group", "end_group", "begin_repeat", "end_repeat"}

StandardOf(tab) == IF tab = "survey" THEN standard_survey ELSE standard_choices
CountryOf(tab) == IF tab = "survey" THEN country_survey ELSE country_choices
KeyOf(tab) == IF tab = "survey" THEN {"name"} ELSE {"name", "list_name"}
TrackedOf(tab) ==
    IF tab = "survey" THEN SURVEY_COLUMNS_TO_COMPARE ELSE CHOICES_COLUMNS_TO_COMPARE
Tabs == {"survey", "choices"}

\* the country rows that carry the key of a standard row
Counterparts(tab, std_row) ==
    {k \in DOMAIN CountryOf(tab).rows :
        \A c \in KeyOf(tab) : std_row[c] # NaN /\ CountryOf(tab).rows[k][c] = std_row[c]}

\* the tracked columns that both tables of a tab have
ComparedColumns(tab) ==
    {c \in Range(TrackedOf(tab)) : c \in StandardOf(tab).columns /\ c \in CountryOf(tab).columns}

\* how many standard rows of a tab the loops have finished
RowsDone(tab) ==
    IF tab = "survey"
    THEN (IF pc = "survey" THEN idx ELSE Len(standard_survey.rows))
    ELSE (IF pc = "survey" THEN 0
          ELSE IF pc = "choices" THEN idx ELSE Len(standard_choices.rows))

\* the positions in the current list of the records of one standard row
RecordsOf(tab, row) ==
    {k \in DOMAIN country_discrepancies :
        country_discrepancies[k].tab = tab /\ country_discrepancies[k].row = row}

\* the record a standard row without counterpart must leave
MissingRecordOf(tab, i) ==
    LET std_row == StandardOf(tab).rows[i]
    IN  IF tab = "survey"
        THEN [tab |-> "survey", row |-> i + 1, name |-> std_row["name"],
              issue |-> "Missing in country survey", matched |-> "not matched",
              approximate_match |-> None, best_match |-> None, token_match |-> None,
              label_match |-> None]
        ELSE [tab |-> "choices", row |-> i + 1, name |-> std_row["name"],
              list_name |-> std_row["list_name"],
              issue |-> "Missing in country choices", matched |-> "not matched",
              approximate_match |-> None, best_match |-> None, token_match |-> None,
              label_match |-> None]

\* C1: every field record with status 'not matched' has at most one of
\* approximate_match, best_match, token_match and label_match non-null.
C1_AtMostOneMatchField ==
    \A k \in DOMAIN country_discrepancies :
        LET r == country_discrepancies[k]
        IN  IsFieldRecord(r) /\ r.matched = "not matched"
                => Cardinality(NonNullMatches(r)) <= 1

\* C2: a field record has status 'not matched' exactly when its raw values are
\* not both empty and are unequal, whatever the cascade found; otherwise its
\* status is 'matched'.
C2_StatusIsValuesDiffer ==
    \A k \in DOMAIN country_discrepancies :
        LET r == country_discrepancies[k]
        IN  IsFieldRecord(r)
                => /\ r.matched \in {"matched", "not matched"}
                   /\ r.matched = "not matched"
                        <=> RawValuesDiffer(r.standard_value, r.country_value)

\* a list with a differing field that a cascade stage resolved, and a field whose
\* raw values are unequal but both empty
C2_Witness ==
    /\ \E k \in DOMAIN country_discrepancies :
          LET r == country_discrepancies[k]
          IN  IsFieldRecord(r) /\ r.matched = "not matched" /\ NonNullMatches(r) # {}
    /\ \E k \in DOMAIN country_discrepancies :
          LET r == country_discrepancies[k]
          IN  IsFieldRecord(r) /\ r.matched = "matched"
                /\ r.standard_value # r.country_value

\* the records of the compared country are: none for a structural survey row, one
\* missing-row record for a row without counterpart, and for a row with a
\* counterpart one field record per compared column that differs or, if
\* with_matched, per compared column; the country is returned iff it has a record
RecordsAre(with_matched) ==
    /\ \A tab \in Tabs : \A i \in DOMAIN StandardOf(tab).rows :
          LET std_row == StandardOf(tab).rows[i]
              of_row == {country_discrepancies[k] : k \in RecordsOf(tab, i + 1)}
          IN  /\ Cardinality(RecordsOf(tab, i + 1)) = Cardinality(of_row)
              /\ IF tab = "survey" /\ IsStructural(std_row) THEN of_row = {}
                 ELSE IF Counterparts(tab, std_row) = {}
                 THEN of_row = {MissingRecordOf(tab, i)}
                 ELSE LET country_row == CountryOf(tab).rows[Min(Counterparts(tab, std_row))]
                          expected == {c \in ComparedColumns(tab) :
                                          with_matched
                                            \/ RawValuesDiffer(std_row[c], country_row[c])}
                      IN  /\ \A r \in of_row : IsFieldRecord(r) /\ r.column \in expected
                          /\ \A c \in expected :
                                Cardinality({r \in of_row : r.column = c}) = 1
    /\ \A k \in DOMAIN country_discrepancies :
          country_discrepancies[k].row - 1
              \in DOMAIN StandardOf(country_discrepancies[k].tab).rows
    /\ country \in DOMAIN discrepancies <=> country_discrepancies # <<>>
    /\ country \in DOMAIN discrepancies => discrepancies[country] = country_discrepancies

\* C3, amended: for each country the records are exactly one per non-structural
\* standard row without country counterpart plus one per compared field of a row
\* with a counterpart, 'matched' fields included; the country is left out of the
\* returned collection only when it has no record at all.
C3_RecordsWithMatched == Compared => RecordsAre(TRUE)

\* C3 as stated: a compared field whose values are equal or both empty leaves no
\* record, so a country without differences is left out.
C3_RecordsWithoutMatched == Compared => RecordsAre(FALSE)

\* a country whose compared fields all match is returned with its 'matched' records
C3_Witness ==
    /\ Compared
    /\ country \in DOMAIN discrepancies
    /\ \A k \in DOMAIN country_discrepancies :
          IsFieldRecord(country_discrepancies[k])
              /\ country_discrepancies[k].matched = "matched"

\* the finished standard rows of a tab, structural ones too if asked, whose key no
\* country row carries have left the missing-row record and nothing else
MissingRowsRecorded(with_structural) ==
    \A tab \in Tabs : \A i \in 1..RowsDone(tab) :
        LET std_row == StandardOf(tab).rows[i]
        IN  /\ Counterparts(tab, std_row) = {}
            /\ with_structural \/ ~(tab = "survey" /\ IsStructural(std_row))
            => /\ Cardinality(RecordsOf(tab, i + 1)) = 1
               /\ \A k \in RecordsOf(tab, i + 1) :
                     country_discrepancies[k] = MissingRecordOf(tab, i)

\* C4, amended: a standard row that is not a structural survey row and whose key
\* matches no country row leaves exactly one record, the 'Missing in country ...'
\* record with status 'not matched' and the four match fields null, and no field
\* record.
C4_MissingRowRecord == Started => MissingRowsRecorded(FALSE)

\* C4 as stated: every standard row whose key matches no country row leaves that
\* one record.
C4_EveryMissingRowRecord == Started => MissingRowsRecorded(TRUE)

\* a survey row and a choices row without counterpart have both been recorded
C4_Witness ==
    /\ Started
    /\ \E k \in DOMAIN country_discrepancies :
          IsMissingRecord(country_discrepancies[k])
              /\ country_discrepancies[k].tab = "survey"
    /\ \E k \in DOMAIN country_discrepancies :
          IsMissingRecord(country_discrepancies[k])
              /\ country_discrepancies[k].tab = "choices"

\* C5: compare_with_standard never raises on tables that have their identity
\* columns, whatever the threshold and however empty a pool is.
C5_NeverRaises == ~raised

\* C6: the country row selected as counterpart of a standard survey row is never
\* a structural row.
C6_CounterpartNotStructural ==
    Started =>
        \A k \in DOMAIN lookups :
            lookups[k].tab = "survey" /\ lookups[k].found # 0
                => ~IsStructural(country_survey.rows[lookups[k].found])

\* the survey records of a list refer to no structural standard row
NoStructuralRow(list) ==
    \A k \in DOMAIN list :
        list[k].tab = "survey"
            => /\ list[k].row - 1 \in DOMAIN standard_survey.rows
               /\ ~IsStructural(standard_survey.rows[list[k].row - 1])

\* C7: no record of any country, missing-row or field, refers to a structural
\* standard survey row, and no lookup is made for one.
C7_StructuralRowsSkipped ==
    /\ NoStructuralRow(country_discrepancies)
    /\ NoStructuralRow(lookups)
    /\ \A c \in DOMAIN discrepancies : NoStructuralRow(discrepancies[c])

\* the survey loop of the last country has passed a structural standard row whose
\* name a country row carries, and some country has been returned with records
C7_Witness ==
    /\ Started
    /\ \E i \in 1..RowsDone("survey") :
          /\ IsStructural(standard_survey.rows[i])
          /\ Counterparts("survey", standard_survey.rows[i]) # {}
    /\ country_index = Len(Countries)
    /\ \E c \in DOMAIN discrepancies : discrepancies[c] # <<>>

ColumnIndex(tab, c) == CHOOSE i \in DOMAIN TrackedOf(tab) : TrackedOf(tab)[i] = c

\* survey before choices, rows in standard order, a row's fields in tracked-column
\* order, and each record numbered and named after its standard row
InStandardOrder(list) ==
    /\ \A i, j \in DOMAIN list :
          i < j =>
            /\ ~(list[i].tab = "choices" /\ list[j].tab = "survey")
            /\ list[i].tab = list[j].tab => list[i].row <= list[j].row
            /\ list[i].tab = list[j].tab /\ list[i].row = list[j].row
                  => /\ IsFieldRecord(list[i]) /\ IsFieldRecord(list[j])
                     /\ ColumnIndex(list[i].tab, list[i].column)
                            < ColumnIndex(list[j].tab, list[j].column)
    /\ \A k \in DOMAIN list :
          /\ list[k].row - 2 \in 0..(Len(StandardOf(list[k].tab).rows) - 1)
          /\ list[k].name = StandardOf(list[k].tab).rows[list[k].row - 1]["name"]

\* a step leaves the lists of the countries already returned as they are, returns
\* the current country's list as it stands, starts a country with an empty list
\* and otherwise only appends to the current list
ListsKeptApart ==
    /\ \A c \in DOMAIN discrepancies :
          c \in DOMAIN discrepancies' /\ discrepancies'[c] = discrepancies[c]
    /\ \A c \in DOMAIN discrepancies' \ DOMAIN discrepancies :
          c = country /\ discrepancies'[c] = country_discrepancies
    /\ IF country_index' # country_index
       THEN country_discrepancies' = <<>>
       ELSE /\ Len(country_discrepancies) <= Len(country_discrepancies')
            /\ SubSeq(country_discrepancies', 1, Len(country_discrepancies))
                  = country_discrepancies

\* C8: in every country's list the survey records precede the choices records,
\* within a tab the records follow standard row order and within a row
\* tracked-column order, each with row = standard index + 2; and no list ever
\* receives the records of another country.
C8_OrderedPerCountry ==
    /\ [](/\ InStandardOrder(country_discrepancies)
          /\ \A c \in DOMAIN discrepancies : InStandardOrder(discrepancies[c]))
    /\ [][ListsKeptApart]_vars

\* the second country's list holds records of two survey rows and of a choices
\* row, several for one row, while the first country's list has been returned
C8_Witness ==
    /\ country_index = 2
    /\ Countries[1] \in DOMAIN discrepancies
    /\ \E i, j, k \in DOMAIN country_discrepancies :
          /\ country_discrepancies[i].tab = "survey"
          /\ country_discrepancies[j].tab = "survey"
          /\ country_discrepancies[i].row = country_discrepancies[j].row
          /\ i # j
          /\ country_discrepancies[k].tab = "choices"
    /\ \E i, j \in DOMAIN country_discrepancies :
          /\ country_discrepancies[i].tab = "survey"
          /\ country_discrepancies[j].tab = "survey"
          /\ country_discrepancies[i].row # country_discrepancies[j].row

StageOrder == <<"approximate", "best", "token", "label">>

\* C9: the cascade of a differing field runs its searches in the order
\* approximate, best, token, label, each only if every earlier search scored
\* below the threshold; when the approximate search scores >= threshold the
\* record carries its candidate in approximate_match and the other three match
\* fields are null.
C9_StagesInOrder ==
    Started =>
      /\ \A e \in DOMAIN cascade_log :
            LET calls == cascade_log[e].calls
                of_field == {k \in RecordsOf(cascade_log[e].tab, cascade_log[e].row) :
                                /\ IsFieldRecord(country_discrepancies[k])
                                /\ country_discrepancies[k].column = cascade_log[e].column}
            IN  /\ calls # <<>>
                /\ Len(calls) <= Len(StageOrder)
                /\ \A k \in DOMAIN calls : calls[k].stage = StageOrder[k]
                /\ \A k \in DOMAIN calls : \A j \in 1..(k - 1) : calls[j].score < threshold
                /\ Cardinality(of_field) = 1
                /\ calls[1].score >= threshold
                      => \A k \in of_field :
                            /\ country_discrepancies[k].approximate_match = calls[1].match
                            /\ country_discrepancies[k].best_match = None
                            /\ country_discrepancies[k].token_match = None
                            /\ country_discrepancies[k].label_match = None
      /\ \A k \in DOMAIN country_discrepancies :
            LET r == country_discrepancies[k]
            IN  IsFieldRecord(r) /\ r.matched = "not matched"
                  => \E e \in DOMAIN cascade_log :
                        /\ cascade_log[e].tab = r.tab
                        /\ cascade_log[e].row = r.row
                        /\ cascade_log[e].column = r.column

\* under threshold 90 one cascade of a country stopped at an approximate
\* candidate, another stopped after the token search and a third went through
\* all four searches
C9_Witness ==
    /\ Started
    /\ threshold = 90
    /\ \E e \in DOMAIN cascade_log :
          /\ Len(cascade_log[e].calls) = 1
          /\ cascade_log[e].calls[1].match # None
    /\ \E e \in DOMAIN cascade_log : Len(cascade_log[e].calls) = 3
    /\ \E e \in DOMAIN cascade_log : Len(cascade_log[e].calls) = 4

\* C10: when find_label_match finds no equal label and none of its four scorers
\* reaches the threshold, the score it returns is the highest score any of the
\* four found.
C10_FallbackIsHighest ==
    \A e \in DOMAIN cascade_log : \A k \in DOMAIN cascade_log[e].calls :
        LET call == cascade_log[e].calls[k]
        IN  /\ call.stage = "label"
            /\ Len(call.attempts) = Len(LABEL_SCORERS)
            /\ \A a \in DOMAIN call.attempts : call.attempts[a][2] < threshold
            => call.score = Max({call.attempts[a][2] : a \in DOMAIN call.attempts})

\* the candidate pool a search of a logged cascade was given: the distinct
\* non-missing values of the country's column
CandidatesOf(entry) == dropna_unique(column_values(CountryOf(entry.tab), entry.column))

\* the target value of a logged cascade: the standard row's value of the column
TargetOf(entry) == StandardOf(entry.tab).rows[entry.row - 1][entry.column]

\* the score of one candidate under the scorer of a stage; a blank candidate scores 0
StageScore(stage, value, candidate) ==
    IF IsBlank(candidate) THEN 0
    ELSE CASE stage = "approximate" -> fuzz_token_set_ratio(str(value), str(candidate), TRUE)
           [] stage = "best" ->
                fuzz_partial_ratio(preprocess_text(value), preprocess_text(candidate))
           [] stage = "token" ->
                fuzz_token_sort_ratio(preprocess_text(value), preprocess_text(candidate), TRUE)

\* what a search must return: nothing for a blank target or an empty pool, and
\* otherwise the first of the best-scoring candidates among those that count (all
\* of them, or for the approximate search those scoring >= threshold)
FirstMaximum(stage, value, candidates) ==
    IF IsBlank(value) \/ candidates = <<>> THEN <<None, 0>>
    ELSE LET score(k) == StageScore(stage, value, candidates[k])
             counted == {k \in DOMAIN candidates :
                            stage = "approximate" => score(k) >= threshold}
             best == {k \in counted : \A j \in counted : score(j) <= score(k)}
         IN  IF counted = {} THEN <<None, 0>>
             ELSE <<candidates[Min(best)], score(Min(best))>>

\* C11: find_best_match and find_token_match return the first candidate of
\* maximum score and that score, find_approximate_match the same among the
\* candidates scoring >= threshold, and with no candidates or an empty target
\* value each of the three returns (None, 0).
C11_SearchReturnsFirstMaximum ==
    Started =>
        \A e \in DOMAIN cascade_log : \A k \in DOMAIN cascade_log[e].calls :
            LET call == cascade_log[e].calls[k]
            IN  call.stage \in {"approximate", "best", "token"}
                  => <<call.match, call.score>>
                        = FirstMaximum(call.stage, TargetOf(cascade_log[e]),
                                       CandidatesOf(cascade_log[e]))

=============================================================================
